---- MODULE Spec2Model ----
(***************************************************************************)
(* Crash-data quality audit: the four checks of modules/data_audit.py, the *)
(* health score, the cleaning transforms of modules/cleaning.py and the    *)
(* Streamlit session of app.py (session dataset, cleaning log, history     *)
(* log).                                                                   *)
(*                                                                         *)
(* A cell value is a record [t, v]: t is "null" (NaN / None / NaT), "num"  *)
(* (a number v), "str" (the text with identifier v) or "ts" (the naive     *)
(* timestamp v).  A column is [name, dtype, vals]; a dataset is            *)
(* [n, cols] with cols in DataFrame column order.                          *)
(* A percentage or rate is the exact rational num/den, or NaN (0/0).       *)
(***************************************************************************)
EXTENDS Integers, Sequences, FiniteSets, TLC

VARIABLES csv, df, cleaning_log, history_log, page, inp, out

vars == <<csv, df, cleaning_log, history_log, page, inp, out>>

---------------------------------------------------------------------------
(* Bounds of the model *)

MaxRows == 3
MaxRowsWide == 6
MaxRowsAcc == 2
MaxCritical == 11

---------------------------------------------------------------------------
(* Cell values *)

NULL == [t |-> "null", v |-> 0]
Num(i) == [t |-> "num", v |-> i]
Str(i) == [t |-> "str", v |-> i]
Ts(i) == [t |-> "ts", v |-> i]

IsNull(x) == x.t = "null"

\* The text "Unknown" of Fill 'Unknown'; it parses as no date.  Texts 1..9 are
\* other unparsable texts; the text 10 + i is a date text that parses to Ts(i).
UnknownText == Str(0)
DateText(i) == Str(10 + i)

\* The value None of st.session_state['df'] after a failed load, and the
\* absent key before the first script run.
None == [n |-> -1, cols |-> <<>>]
NotLoaded == [n |-> -2, cols |-> <<>>]

Count(s, P(_)) == Cardinality({i \in DOMAIN s : P(s[i])})

RECURSIVE SumSeq(_)
SumSeq(s) == IF s = <<>> THEN 0 ELSE Head(s) + SumSeq(Tail(s))

---------------------------------------------------------------------------
(* Column-name tests *)

Columns ==
    {"Report Number", "Crash Date/Time", "Latitude", "Longitude",
     "Driver Age", "Agency Name"}

\* 'Age' in c
HasAge(c) == c \in {"Driver Age", "Agency Name"}

\* 'Date' in c or 'Time' in c
HasDateOrTime(c) == c \in {"Crash Date/Time"}

\* mutant: an object column taken for a numeric one
is_numeric_dtype_ObjectToo(col) == col.dtype \in {"float64", "object"}

is_numeric_dtype(col) == col.dtype = "float64"

is_datetime64_any_dtype(col) == col.dtype = "datetime64"

ColNames(d) == {d.cols[i].name : i \in DOMAIN d.cols}

HasCol(d, c) == c \in ColNames(d)

Col(d, c) == d.cols[CHOOSE i \in DOMAIN d.cols : d.cols[i].name = c]

MissingCount(col) == Count(col.vals, IsNull)

---------------------------------------------------------------------------
(* Rationals with NaN *)

NaN == [nan |-> TRUE, num |-> 0, den |-> 1]
Rat(a, b) == [nan |-> FALSE, num |-> a, den |-> b]

\* a / b * 100 as pandas / numpy compute it: 0/0 is NaN, no exception
DivTimes100(a, b) == IF b = 0 THEN NaN ELSE Rat(a * 100, b)

\* p > k; every comparison with NaN is False
GT(p, k) == ~p.nan /\ p.num > k * p.den

---------------------------------------------------------------------------
(* data_audit.check_completeness *)

DefaultKeyFields == {"Report Number", "Crash Date/Time", "Latitude", "Longitude"}

\* mutant: the Warning threshold tested before the key-field rule
get_status_WarningFirst(row, key_fields) ==
    IF GT(row.Percentage, 20) THEN "Warning"
    ELSE IF row.Column \in key_fields /\ GT(row.Percentage, 1) THEN "Critical"
    ELSE "Valid"

get_status(row, key_fields) ==
    IF row.Column \in key_fields /\ GT(row.Percentage, 1) THEN "Critical"
    ELSE IF GT(row.Percentage, 20) THEN "Warning"
    ELSE IF GT(row.Percentage, 0) THEN "Valid"
    ELSE "Valid"

nunique(col) == Cardinality({col.vals[i] : i \in {j \in DOMAIN col.vals : ~IsNull(col.vals[j])}})

\* a sorts strictly before b in descending order of Percentage, NaN last
PctBefore(a, b) ==
    /\ ~a.Percentage.nan
    /\ \/ b.Percentage.nan
       \/ a.Percentage.num * b.Percentage.den > b.Percentage.num * a.Percentage.den

RECURSIVE InsertDesc(_, _)
InsertDesc(row, sorted) ==
    IF sorted = <<>> THEN <<row>>
    ELSE IF PctBefore(row, Head(sorted)) THEN <<row>> \o sorted
    ELSE <<Head(sorted)>> \o InsertDesc(row, Tail(sorted))

RECURSIVE SortDesc(_)
SortDesc(rows) ==
    IF rows = <<>> THEN <<>>
    ELSE InsertDesc(rows[Len(rows)], SortDesc(SubSeq(rows, 1, Len(rows) - 1)))

CompletenessRow(d, i, key_fields) ==
    LET col == d.cols[i]
        base == [Column |-> col.name,
                 Missing |-> MissingCount(col),
                 Percentage |-> DivTimes100(MissingCount(col), d.n),
                 Type |-> col.dtype,
                 Unique |-> nunique(col)]
    IN  [Column |-> base.Column, Missing |-> base.Missing,
         Percentage |-> base.Percentage, Type |-> base.Type,
         Unique |-> base.Unique, Status |-> get_status(base, key_fields)]

check_completeness(d, key_fields) ==
    SortDesc([i \in DOMAIN d.cols |-> CompletenessRow(d, i, key_fields)])

---------------------------------------------------------------------------
(* data_audit.check_consistency *)

\* df.duplicated(subset=[key]).sum(): rows whose key equals the key of an
\* earlier row (keep='first'; missing keys are equal to each other)
\* mutant: keep=False, every row of a repeated key is marked
duplicated_sum_KeepFalse(vals) ==
    Cardinality({i \in DOMAIN vals : \E j \in DOMAIN vals : j # i /\ vals[j] = vals[i]})

duplicated_sum(vals) ==
    Cardinality({i \in DOMAIN vals : \E j \in DOMAIN vals : j < i /\ vals[j] = vals[i]})

check_consistency(d, key_column) ==
    IF HasCol(d, key_column)
    THEN LET dup_count == duplicated_sum(Col(d, key_column).vals)
         IN  [DuplicateCount |-> dup_count,
              DuplicateRate |-> IF d.n > 0 THEN DivTimes100(dup_count, d.n) ELSE Rat(0, 1)]
    ELSE [DuplicateCount |-> 0, DuplicateRate |-> Rat(0, 1)]

---------------------------------------------------------------------------
(* data_audit.check_accuracy *)

\* Comparing a text cell of an object column with a number raises TypeError.
CompareRaises(col) == \E i \in DOMAIN col.vals : col.vals[i].t = "str"

\* len(df[~df[c].between(lo, hi) & df[c].notnull()])
invalid_count(col, lo, hi) ==
    Count(col.vals, LAMBDA x : ~(x.t = "num" /\ lo <= x.v /\ x.v <= hi) /\ ~IsNull(x))

\* len(df[df[col] < 0])
neg_age(col) == Count(col.vals, LAMBDA x : x.t = "num" /\ x.v < 0)

NegativeKey(c) == "Negative " \o c

RECURSIVE AgeIssues(_, _)
AgeIssues(d, i) ==
    IF i > Len(d.cols) THEN <<>>
    ELSE LET col == d.cols[i]
         IN  (IF HasAge(col.name) /\ is_numeric_dtype(col) /\ neg_age(col) > 0
              THEN <<[key |-> NegativeKey(col.name), count |-> neg_age(col)]>>
              ELSE <<>>) \o AgeIssues(d, i + 1)

\* mutant: rows with an invalid latitude or longitude, each counted once
CoordinateIssues_RowsEither(d) ==
    IF HasCol(d, "Latitude") /\ HasCol(d, "Longitude")
    THEN LET bad(x, lo, hi) == ~(x.t = "num" /\ lo <= x.v /\ x.v <= hi) /\ ~IsNull(x)
         IN  <<[key |-> "Invalid Coordinates",
                count |-> Cardinality({i \in 1..d.n :
                             \/ bad(Col(d, "Latitude").vals[i], -90, 90)
                             \/ bad(Col(d, "Longitude").vals[i], -180, 180)})]>>
    ELSE <<>>

CoordinateIssues(d) ==
    IF HasCol(d, "Latitude") /\ HasCol(d, "Longitude")
    THEN LET invalid_lat == invalid_count(Col(d, "Latitude"), -90, 90)
             invalid_lon == invalid_count(Col(d, "Longitude"), -180, 180)
         IN  <<[key |-> "Invalid Coordinates", count |-> invalid_lat + invalid_lon]>>
    ELSE <<>>

\* [raised, issues]: issues is the dict in insertion order
check_accuracy(d) ==
    IF /\ HasCol(d, "Latitude") /\ HasCol(d, "Longitude")
       /\ (CompareRaises(Col(d, "Latitude")) \/ CompareRaises(Col(d, "Longitude")))
    THEN [raised |-> TRUE, issues |-> <<>>]
    ELSE [raised |-> FALSE, issues |-> CoordinateIssues(d) \o AgeIssues(d, 1)]

Keys(issues) == {issues[i].key : i \in DOMAIN issues}

\* sum(accuracy_stats.values())
SumValues(issues) == SumSeq([i \in DOMAIN issues |-> issues[i].count])

---------------------------------------------------------------------------
(* data_audit.check_timeliness *)

NoneValue == [t |-> "none", v |-> 0]

\* pd.to_datetime(x, errors='coerce') of one cell: a timestamp stays, a number
\* is nanoseconds since the epoch, a date text parses, anything else is NaT
to_datetime(x) ==
    CASE x.t = "ts" -> x
      [] x.t = "num" -> Ts(x.v)
      [] x.t = "str" /\ x.v >= 10 -> Ts(x.v - 10)
      [] OTHER -> NULL

\* series.max(): NaT is skipped; NaT when nothing is left
SeriesMax(vals) ==
    LET valid == {vals[i].v : i \in {j \in DOMAIN vals : ~IsNull(vals[j])}}
    IN  IF valid = {} THEN NULL
        ELSE Ts(CHOOSE m \in valid : \A k \in valid : k <= m)

\* mutant: series >= now
check_timeliness_NotStrict(d, date_column, now) ==
    IF HasCol(d, date_column)
    THEN LET col == Col(d, date_column)
             series == IF ~is_datetime64_any_dtype(col)
                       THEN [i \in DOMAIN col.vals |-> to_datetime(col.vals[i])]
                       ELSE col.vals
         IN  [FutureDates |-> Count(series, LAMBDA x : ~IsNull(x) /\ x.v >= now),
              LatestDate |-> SeriesMax(series)]
    ELSE [FutureDates |-> 0, LatestDate |-> NoneValue]

check_timeliness(d, date_column, now) ==
    IF HasCol(d, date_column)
    THEN LET col == Col(d, date_column)
             series == IF ~is_datetime64_any_dtype(col)
                       THEN [i \in DOMAIN col.vals |-> to_datetime(col.vals[i])]
                       ELSE col.vals
         IN  [FutureDates |-> Count(series, LAMBDA x : ~IsNull(x) /\ x.v > now),
              LatestDate |-> SeriesMax(series)]
    ELSE [FutureDates |-> 0, LatestDate |-> NoneValue]

---------------------------------------------------------------------------
(* data_audit.calculate_health_score *)

Max(a, b) == IF a >= b THEN a ELSE b

\* completeness_df[completeness_df['Status'] == 'Critical']
CriticalRows(completeness_df) == SelectSeq(completeness_df, LAMBDA r : r.Status = "Critical")

\* mutant: the future-date penalty added instead of subtracted
calculate_health_score_AddsPenalty(completeness_df, consistency_stats, accuracy_stats, timeliness_stats) ==
    LET critical_missing == Len(CriticalRows(completeness_df))
        s1 == 100 - critical_missing * 10
        s2 == IF GT(consistency_stats.DuplicateRate, 0)
              THEN (IF GT(consistency_stats.DuplicateRate, 5) THEN s1 - 10 - 10 ELSE s1 - 10)
              ELSE s1
        total_accuracy_issues == SumValues(accuracy_stats)
        s3 == IF total_accuracy_issues > 0
              THEN (IF total_accuracy_issues > 100 THEN s2 - 5 - 10 ELSE s2 - 5)
              ELSE s2
        s4 == IF timeliness_stats.FutureDates > 0 THEN s3 + 5 ELSE s3
    IN  Max(0, s4)

\* mutant: the extra duplicate penalty from a rate of 5 % on (>= 5)
calculate_health_score_RateAtLeast5(completeness_df, consistency_stats, accuracy_stats, timeliness_stats) ==
    LET critical_missing == Len(CriticalRows(completeness_df))
        s1 == 100 - critical_missing * 10
        s2 == IF GT(consistency_stats.DuplicateRate, 0)
              THEN (IF ~consistency_stats.DuplicateRate.nan
                       /\ consistency_stats.DuplicateRate.num >= 5 * consistency_stats.DuplicateRate.den
                    THEN s1 - 10 - 10 ELSE s1 - 10)
              ELSE s1
        total_accuracy_issues == SumValues(accuracy_stats)
        s3 == IF total_accuracy_issues > 0
              THEN (IF total_accuracy_issues > 100 THEN s2 - 5 - 10 ELSE s2 - 5)
              ELSE s2
        s4 == IF timeliness_stats.FutureDates > 0 THEN s3 - 5 ELSE s3
    IN  Max(0, s4)

calculate_health_score(completeness_df, consistency_stats, accuracy_stats, timeliness_stats) ==
    LET critical_missing == Len(CriticalRows(completeness_df))
        s1 == 100 - critical_missing * 10
        s2 == IF GT(consistency_stats.DuplicateRate, 0)
              THEN (IF GT(consistency_stats.DuplicateRate, 5) THEN s1 - 10 - 10 ELSE s1 - 10)
              ELSE s1
        total_accuracy_issues == SumValues(accuracy_stats)
        s3 == IF total_accuracy_issues > 0
              THEN (IF total_accuracy_issues > 100 THEN s2 - 5 - 10 ELSE s2 - 5)
              ELSE s2
        s4 == IF timeliness_stats.FutureDates > 0 THEN s3 - 5 ELSE s3
    IN  Max(0, s4)

---------------------------------------------------------------------------
(* data_audit.generate_textual_summary: the text is the sequence of its      *)
(* sentences, each [kind, count, names]                                      *)

Sentence(kind, count, names) == [kind |-> kind, count |-> count, names |-> names]

\* "Data looks clean! No major issues detected."
CleanMessage == <<Sentence("clean", 0, <<>>)>>

\* mutant: the completeness sentence put before the consistency sentence
generate_textual_summary_CriticalFirst(completeness_df, consistency_stats, accuracy_stats, timeliness_stats) ==
    LET dupes == consistency_stats.DuplicateCount
        critical == CriticalRows(completeness_df)
        acc_issues == SumValues(accuracy_stats)
        details == SelectSeq(accuracy_stats, LAMBDA e : e.count > 0)
        future == timeliness_stats.FutureDates
        summary_lines ==
            (IF critical # <<>>
             THEN <<Sentence("critical", Len(critical),
                             [i \in DOMAIN critical |-> critical[i].Column])>>
             ELSE <<>>)
            \o (IF dupes > 0 THEN <<Sentence("duplicates", dupes, <<>>)>> ELSE <<>>)
            \o (IF acc_issues > 0
                THEN <<Sentence("accuracy", acc_issues,
                                [i \in DOMAIN details |-> details[i].key])>>
                ELSE <<>>)
            \o (IF future > 0 THEN <<Sentence("future", future, <<>>)>> ELSE <<>>)
    IN  IF summary_lines = <<>> THEN CleanMessage ELSE summary_lines

\* mutant: no clean message, the empty text when nothing was found
generate_textual_summary_NoCleanMessage(completeness_df, consistency_stats, accuracy_stats, timeliness_stats) ==
    LET dupes == consistency_stats.DuplicateCount
        critical == CriticalRows(completeness_df)
        acc_issues == SumValues(accuracy_stats)
        details == SelectSeq(accuracy_stats, LAMBDA e : e.count > 0)
        future == timeliness_stats.FutureDates
    IN  (IF dupes > 0 THEN <<Sentence("duplicates", dupes, <<>>)>> ELSE <<>>)
        \o (IF critical # <<>>
            THEN <<Sentence("critical", Len(critical),
                            [i \in DOMAIN critical |-> critical[i].Column])>>
            ELSE <<>>)
        \o (IF acc_issues > 0
            THEN <<Sentence("accuracy", acc_issues,
                            [i \in DOMAIN details |-> details[i].key])>>
            ELSE <<>>)
        \o (IF future > 0 THEN <<Sentence("future", future, <<>>)>> ELSE <<>>)

generate_textual_summary(completeness_df, consistency_stats, accuracy_stats, timeliness_stats) ==
    LET dupes == consistency_stats.DuplicateCount
        critical == CriticalRows(completeness_df)
        acc_issues == SumValues(accuracy_stats)
        details == SelectSeq(accuracy_stats, LAMBDA e : e.count > 0)
        future == timeliness_stats.FutureDates
        summary_lines ==
            (IF dupes > 0 THEN <<Sentence("duplicates", dupes, <<>>)>> ELSE <<>>)
            \o (IF critical # <<>>
                THEN <<Sentence("critical", Len(critical),
                                [i \in DOMAIN critical |-> critical[i].Column])>>
                ELSE <<>>)
            \o (IF acc_issues > 0
                THEN <<Sentence("accuracy", acc_issues,
                                [i \in DOMAIN details |-> details[i].key])>>
                ELSE <<>>)
            \o (IF future > 0 THEN <<Sentence("future", future, <<>>)>> ELSE <<>>)
    IN  IF summary_lines = <<>> THEN CleanMessage ELSE summary_lines

---------------------------------------------------------------------------
(* data_audit.run_audit *)

NoReport ==
    [raised |-> FALSE, score |-> -1, completeness |-> <<>>,
     consistency |-> [DuplicateCount |-> 0, DuplicateRate |-> Rat(0, 1)],
     accuracy |-> <<>>, timeliness |-> [FutureDates |-> 0, LatestDate |-> NoneValue],
     summary_text |-> <<>>]

run_audit(d, now) ==
    LET comp_df == check_completeness(d, DefaultKeyFields)
        const_stats == check_consistency(d, "Report Number")
        acc == check_accuracy(d)
        time_stats == check_timeliness(d, "Crash Date/Time", now)
    IN  IF acc.raised
        THEN [NoReport EXCEPT !.raised = TRUE]
        ELSE [raised |-> FALSE,
              score |-> calculate_health_score(comp_df, const_stats, acc.issues, time_stats),
              completeness |-> comp_df,
              consistency |-> const_stats,
              accuracy |-> acc.issues,
              timeliness |-> time_stats,
              summary_text |-> generate_textual_summary(comp_df, const_stats, acc.issues, time_stats)]

---------------------------------------------------------------------------
(* cleaning.impute_missing_values and cleaning.fix_date_formats.             *)
(* A message is [kind, column, val]: the format string, the column it names  *)
(* and the value it prints.                                                  *)

Msg(kind, column, val) == [kind |-> kind, column |-> column, val |-> val]

Methods == {"Mean", "Median", "Mode", "Drop Rows", "Fill Zero", "Fill 'Unknown'"}

NonNull(vals) == SelectSeq(vals, LAMBDA x : ~IsNull(x))

\* Series.mean(): NaN on an all-null column.  The numbers of the modelled
\* datasets (0 and 30, at most three of them) have an integral mean.
mean(vals) ==
    LET nn == NonNull(vals)
    IN  IF nn = <<>> THEN NULL
        ELSE Num(SumSeq([i \in DOMAIN nn |-> nn[i].v]) \div Len(nn))

\* the k-th smallest of a non-empty sequence of numbers
Kth(nn, k) ==
    CHOOSE x \in {nn[i].v : i \in DOMAIN nn} :
        /\ Cardinality({i \in DOMAIN nn : nn[i].v < x}) < k
        /\ Cardinality({i \in DOMAIN nn : nn[i].v <= x}) >= k

\* Series.median(): the middle value, or the mean of the two middle values
median(vals) ==
    LET nn == NonNull(vals)
        m == Len(nn)
    IN  IF m = 0 THEN NULL
        ELSE IF m % 2 = 1 THEN Num(Kth(nn, (m + 1) \div 2))
        ELSE Num((Kth(nn, m \div 2) + Kth(nn, m \div 2 + 1)) \div 2)

\* Series.mode(): the most frequent non-null values in ascending order (the
\* cells of one column that are compared here have one type)
mode(vals) ==
    LET nn == NonNull(vals)
        freq(x) == Cardinality({i \in DOMAIN nn : nn[i] = x})
        top == {nn[i] : i \in {j \in DOMAIN nn : \A k \in DOMAIN nn : freq(nn[k]) <= freq(nn[j])}}
    IN  top

\* Series.mode()[0]
ModeFirst(vals) == CHOOSE x \in mode(vals) : \A y \in mode(vals) : x.v <= y.v

\* mutant: fillna(val, limit=1), only the first missing cell is filled
fillna_FirstOnly(col, val, dtype) ==
    LET first == CHOOSE i \in DOMAIN col.vals :
                     IsNull(col.vals[i]) /\ \A j \in 1..(i - 1) : ~IsNull(col.vals[j])
    IN  [name |-> col.name,
         dtype |-> dtype,
         vals |-> [i \in DOMAIN col.vals |-> IF i = first THEN val ELSE col.vals[i]]]

\* Series.fillna(val); the dtype becomes object when val does not fit it
fillna(col, val, dtype) ==
    [name |-> col.name,
     dtype |-> dtype,
     vals |-> [i \in DOMAIN col.vals |-> IF IsNull(col.vals[i]) THEN val ELSE col.vals[i]]]

SetCol(d, column, newcol) ==
    [n |-> d.n,
     cols |-> [i \in DOMAIN d.cols |-> IF d.cols[i].name = column THEN newcol ELSE d.cols[i]]]

\* df.dropna(subset=[column])
dropna(d, column) ==
    LET keep == {i \in 1..d.n : ~IsNull(Col(d, column).vals[i])}
        pick(vals) == SelectSeq([i \in 1..d.n |-> [i |-> i, x |-> vals[i]]],
                                LAMBDA e : e.i \in keep)
    IN  [n |-> Cardinality(keep),
         cols |-> [c \in DOMAIN d.cols |->
                     [name |-> d.cols[c].name, dtype |-> d.cols[c].dtype,
                      vals |-> [k \in DOMAIN pick(d.cols[c].vals) |-> pick(d.cols[c].vals)[k].x]]]]

Result(d, msg) == [df |-> d, msg |-> msg]

\* df = df.copy() makes every change below a change of the returned dataset
\* only.  Filling a number into a float64 column keeps its dtype; 0 filled
\* into a text or timestamp column, and 'Unknown' filled into any column,
\* leave an object column.

impute_missing_values(d, column, method) ==
    LET col == Col(d, column)
        missing_count == MissingCount(col)
    IN  IF missing_count = 0 THEN Result(d, Msg("No missing values in {column} to fill.", column, NULL))
        ELSE CASE method = "Mean" ->
                    IF is_numeric_dtype(col)
                    THEN Result(SetCol(d, column, fillna(col, mean(col.vals), col.dtype)),
                                Msg("Filled missing {column} with Mean: {val:.2f}", column, mean(col.vals)))
                    ELSE Result(d, Msg("Cannot calculate Mean for non-numeric column {column}.", column, NULL))
               [] method = "Median" ->
                    IF is_numeric_dtype(col)
                    THEN Result(SetCol(d, column, fillna(col, median(col.vals), col.dtype)),
                                Msg("Filled missing {column} with Median: {val:.2f}", column, median(col.vals)))
                    ELSE Result(d, Msg("Cannot calculate Median for non-numeric column {column}.", column, NULL))
               [] method = "Mode" ->
                    IF mode(col.vals) # {}
                    THEN Result(SetCol(d, column, fillna(col, ModeFirst(col.vals), col.dtype)),
                                Msg("Filled missing {column} with Mode: {val}", column, ModeFirst(col.vals)))
                    ELSE Result(d, Msg("Could not determine Mode for {column}.", column, NULL))
               [] method = "Drop Rows" ->
                    Result(dropna(d, column),
                           Msg("Dropped {missing_count} rows with missing {column}", column, Num(missing_count)))
               [] method = "Fill Zero" ->
                    Result(SetCol(d, column,
                                  fillna(col, Num(0), IF is_numeric_dtype(col) THEN col.dtype ELSE "object")),
                           Msg("Filled missing {column} with 0", column, NULL))
               [] method = "Fill 'Unknown'" ->
                    Result(SetCol(d, column, fillna(col, UnknownText, "object")),
                           Msg("Filled missing {column} with 'Unknown'", column, NULL))
               [] OTHER ->
                    Result(d, Msg("Invalid imputation method selected.", "", NULL))

\* mutant: every date-named column counted, whatever its dtype
DateColumnsToFix_AnyDtype(d) ==
    SelectSeq([i \in DOMAIN d.cols |-> d.cols[i]], LAMBDA c : HasDateOrTime(c.name))

\* the date-named object columns, which fix_date_formats converts
DateColumnsToFix(d) ==
    SelectSeq([i \in DOMAIN d.cols |-> d.cols[i]],
              LAMBDA c : HasDateOrTime(c.name) /\ c.dtype = "object")

fix_date_formats(d) ==
    LET converted == DateColumnsToFix(d)
        count == Len(converted)
        new_df == [n |-> d.n,
                   cols |-> [i \in DOMAIN d.cols |->
                       IF HasDateOrTime(d.cols[i].name) /\ d.cols[i].dtype = "object"
                       THEN [name |-> d.cols[i].name, dtype |-> "datetime64",
                             vals |-> [k \in DOMAIN d.cols[i].vals |-> to_datetime(d.cols[i].vals[k])]]
                       ELSE d.cols[i]]]
    IN  IF count > 0
        THEN Result(new_df, Msg("Fixed Date Formats: {converted}", "",
                                [t |-> "cols", v |-> count]))
        ELSE Result(new_df, Msg("No date columns required fixing.", "", NULL))

\* word in log_msg, for the two words render_cleaning_ui looks for; no column
\* name and no value of the modelled datasets contains either word
MsgContains(msg, word) ==
    CASE word = "Cannot" ->
            msg.kind \in {"Cannot calculate Mean for non-numeric column {column}.",
                          "Cannot calculate Median for non-numeric column {column}."}
      [] word = "Invalid" -> msg.kind = "Invalid imputation method selected."
      [] OTHER -> FALSE

\* mutant: the new entry put at the head of the log
log_step_Prepend(log, action) == <<action>> \o log

\* cleaning.log_step: st.session_state['cleaning_log'].append(action)
log_step(log, action) == Append(log, action)

---------------------------------------------------------------------------
(* Datasets the checks are run on *)

MkCol(name, dtype, vals) == [name |-> name, dtype |-> dtype, vals |-> vals]

Vals(S, n) == [1..n -> S]

\* one key column or one non-key column, up to MaxRowsWide rows
WideDatasets ==
    UNION {{[n |-> n, cols |-> <<MkCol("Latitude", "float64", v)>>] : v \in Vals({NULL, Num(45)}, n)}
           \cup {[n |-> n, cols |-> <<MkCol("Agency Name", "object", v)>>] : v \in Vals({NULL, Str(1)}, n)}
           : n \in 0..MaxRowsWide}

ConsistencyDatasets ==
    UNION {{[n |-> n, cols |-> <<MkCol("Report Number", "float64", v)>>]
            : v \in Vals({NULL, Num(1), Num(2)}, n)} : n \in 0..MaxRows}

\* a column that may be absent: a sequence of zero or one column
LatitudeOptions(n) ==
    {<<>>} \cup {<<MkCol("Latitude", "float64", v)>> : v \in Vals({NULL, Num(90), Num(91)}, n)}
           \cup {<<MkCol("Latitude", "object", [i \in 1..n |-> UnknownText])>>}

LongitudeOptions(n) ==
    {<<>>} \cup {<<MkCol("Longitude", "float64", v)>> : v \in Vals({NULL, Num(-180), Num(-181)}, n)}

AgeOptions(n) ==
    {<<>>} \cup {<<MkCol("Driver Age", "float64", v)>> : v \in Vals({NULL, Num(-1), Num(30)}, n)}
           \cup {<<MkCol("Driver Age", "object", [i \in 1..n |-> UnknownText])>>}

AccuracyDatasets ==
    UNION {{[n |-> n, cols |-> la \o lo \o ag]
            : la \in LatitudeOptions(n), lo \in LongitudeOptions(n), ag \in AgeOptions(n)}
           : n \in 0..MaxRowsAcc}

TimelinessDatasets ==
    UNION {{[n |-> n, cols |-> <<MkCol("Crash Date/Time", "datetime64", v)>>]
            : v \in Vals({NULL, Ts(1), Ts(3)}, n)}
           \cup {[n |-> n, cols |-> <<MkCol("Crash Date/Time", "object", v)>>]
                 : v \in Vals({NULL, UnknownText, Num(0), Ts(3)}, n)}
           : n \in 0..MaxRows}

\* two rows, every expected column present
MixedDatasets ==
    {[n |-> 2,
      cols |-> <<MkCol("Report Number", "float64", rn),
                 MkCol("Crash Date/Time", "datetime64", dt),
                 MkCol("Latitude", "float64", la),
                 MkCol("Longitude", "float64", lo),
                 MkCol("Driver Age", "float64", ag),
                 MkCol("Agency Name", "object", <<Str(1), Str(2)>>)>>]
     : rn \in {<<Num(1), Num(1)>>, <<Num(1), Num(2)>>},
       dt \in {<<Ts(1), Ts(3)>>, <<NULL, Ts(3)>>, <<Ts(1), Ts(1)>>},
       la \in {<<Num(90), Num(91)>>, <<Num(45), Num(45)>>},
       lo \in {<<Num(0), Num(-181)>>, <<Num(0), Num(0)>>},
       ag \in {<<Num(30), Num(-1)>>, <<Num(30), Num(30)>>}}

AuditDatasets ==
    WideDatasets \cup ConsistencyDatasets \cup AccuracyDatasets
        \cup TimelinessDatasets \cup MixedDatasets

\* instants at which an audit may run (pd.Timestamp.now())
Times == {2, 3}

KeyFieldChoices == {DefaultKeyFields, {"Agency Name"}}

---------------------------------------------------------------------------
(* The checks applied to a dataset *)

NoOut == [op |-> "none", arg |-> 0, res |-> 0]

IdleSession ==
    /\ csv = None
    /\ cleaning_log = <<>>
    /\ history_log = <<>>
    /\ page = "Dashboard"
    /\ inp = 0

InitAudit ==
    /\ IdleSession
    /\ df \in AuditDatasets
    /\ out = NoOut

CheckCompleteness ==
    /\ \E kf \in KeyFieldChoices :
          out' = [op |-> "check_completeness", arg |-> kf, res |-> check_completeness(df, kf)]
    /\ UNCHANGED <<csv, df, cleaning_log, history_log, page, inp>>

CheckConsistency ==
    /\ out' = [op |-> "check_consistency", arg |-> "Report Number",
               res |-> check_consistency(df, "Report Number")]
    /\ UNCHANGED <<csv, df, cleaning_log, history_log, page, inp>>

CheckAccuracy ==
    /\ out' = [op |-> "check_accuracy", arg |-> 0, res |-> check_accuracy(df)]
    /\ UNCHANGED <<csv, df, cleaning_log, history_log, page, inp>>

CheckTimeliness ==
    /\ \E now \in Times :
          out' = [op |-> "check_timeliness", arg |-> now,
                  res |-> check_timeliness(df, "Crash Date/Time", now)]
    /\ UNCHANGED <<csv, df, cleaning_log, history_log, page, inp>>

RunAudit ==
    /\ \E now \in Times :
          out' = [op |-> "run_audit", arg |-> now, res |-> run_audit(df, now)]
    /\ UNCHANGED <<csv, df, cleaning_log, history_log, page, inp>>

NextAudit ==
    \/ CheckCompleteness
    \/ CheckConsistency
    \/ CheckAccuracy
    \/ CheckTimeliness
    \/ RunAudit

SpecAudit == InitAudit /\ [][NextAudit]_vars

---------------------------------------------------------------------------
(* The scoring function and the summary applied to check results *)

ScoreRow(column, status) ==
    [Column |-> column, Missing |-> 0, Percentage |-> Rat(0, 1), Type |-> "object",
     Unique |-> 0, Status |-> status]

\* k Critical rows, then w Warning rows, then v Valid rows
CompletenessInputs ==
    {[i \in 1..(k + w + v) |->
        IF i <= k THEN ScoreRow("Key " \o ToString(i), "Critical")
        ELSE IF i <= k + w THEN ScoreRow("Agency Name", "Warning")
        ELSE ScoreRow("Driver Age", "Valid")]
     : k \in 0..MaxCritical, w \in 0..1, v \in 0..1}

\* duplicate rates around the 5 % threshold: c duplicates among n rows
ConsistencyInputs ==
    {[DuplicateCount |-> c, DuplicateRate |-> DivTimes100(c, n)]
     : c \in 0..2, n \in {19, 20, 21}}

\* accuracy totals around the thresholds 0 and 100
AccuracyInputs ==
    {<<>>}
    \cup {<<[key |-> "Invalid Coordinates", count |-> a]>> : a \in {0, 1, 100, 101}}
    \cup {<<[key |-> "Invalid Coordinates", count |-> a],
            [key |-> NegativeKey("Driver Age"), count |-> 1]>> : a \in {0, 99, 100}}

TimelinessInputs ==
    {[FutureDates |-> f, LatestDate |-> l] : f \in 0..2, l \in {NoneValue, Ts(1)}}

InitScore ==
    /\ csv = None
    /\ df = None
    /\ cleaning_log = <<>>
    /\ history_log = <<>>
    /\ page = "Data Audit"
    /\ inp \in [completeness : CompletenessInputs, consistency : ConsistencyInputs,
                 accuracy : AccuracyInputs, timeliness : TimelinessInputs]
    /\ out = NoOut

Score ==
    /\ out' = [op |-> "calculate_health_score", arg |-> 0,
               res |-> calculate_health_score(inp.completeness, inp.consistency,
                                              inp.accuracy, inp.timeliness)]
    /\ UNCHANGED <<csv, df, cleaning_log, history_log, page, inp>>

Summarise ==
    /\ out' = [op |-> "generate_textual_summary", arg |-> 0,
               res |-> generate_textual_summary(inp.completeness, inp.consistency,
                                                inp.accuracy, inp.timeliness)]
    /\ UNCHANGED <<csv, df, cleaning_log, history_log, page, inp>>

NextScore == Score \/ Summarise

SpecScore == InitScore /\ [][NextScore]_vars

\* The penalty of section "Scoring": read off the four check results
Penalty(i) ==
    10 * Cardinality({r \in DOMAIN i.completeness : i.completeness[r].Status = "Critical"})
    + (IF i.consistency.DuplicateRate.num > 0 THEN 10 ELSE 0)
    + (IF i.consistency.DuplicateRate.num > 5 * i.consistency.DuplicateRate.den THEN 10 ELSE 0)
    + (IF SumValues(i.accuracy) > 0 THEN 5 ELSE 0)
    + (IF SumValues(i.accuracy) > 100 THEN 10 ELSE 0)
    + (IF i.timeliness.FutureDates > 0 THEN 5 ELSE 0)

\* C2: calculate_health_score returns max(0, 100 - P), P the sum of 10 per
\* Critical row, 10 for a duplicate rate > 0 and 10 more for a rate > 5
\* (strictly), 5 for an accuracy total > 0 and 10 more for a total > 100
\* (strictly), 5 for a future-date count > 0.
C2_ScoreFormula ==
    out.op = "calculate_health_score" =>
        out.res = (IF 100 - Penalty(inp) > 0 THEN 100 - Penalty(inp) ELSE 0)

\* C2 witness: a duplicate rate of exactly 5 % and an accuracy total of
\* exactly 100 cost 10 and 5: the score is 85.
C2_Witness ==
    /\ out.op = "calculate_health_score"
    /\ inp.consistency.DuplicateRate = Rat(100, 20)
    /\ SumValues(inp.accuracy) = 100
    /\ Len(CriticalRows(inp.completeness)) = 0
    /\ inp.timeliness.FutureDates = 0
    /\ out.res = 85

\* the categories that report an issue, in the order of section "Summary"
IssueKinds(i) ==
    (IF i.consistency.DuplicateCount > 0 THEN <<"duplicates">> ELSE <<>>)
    \o (IF \E r \in DOMAIN i.completeness : i.completeness[r].Status = "Critical"
        THEN <<"critical">> ELSE <<>>)
    \o (IF SumValues(i.accuracy) > 0 THEN <<"accuracy">> ELSE <<>>)
    \o (IF i.timeliness.FutureDates > 0 THEN <<"future">> ELSE <<>>)

\* C11: generate_textual_summary emits exactly one sentence per category that
\* found an issue (duplicate count > 0, a Critical column, accuracy total > 0,
\* future-date count > 0), in the order consistency, completeness, accuracy,
\* timeliness, and no sentence for another category; it returns the fixed
\* clean message if and only if no category found an issue.
C11_SummarySentences ==
    out.op = "generate_textual_summary" =>
        /\ (out.res = CleanMessage) <=> (IssueKinds(inp) = <<>>)
        /\ IssueKinds(inp) # <<>> =>
              [k \in DOMAIN out.res |-> out.res[k].kind] = IssueKinds(inp)

\* C11 witness: all four categories found an issue; the four sentences come
\* in the fixed order.
C11_Witness ==
    /\ IssueKinds(inp) = <<"duplicates", "critical", "accuracy", "future">>
    /\ out.op = "generate_textual_summary"
    /\ [k \in DOMAIN out.res |-> out.res[k].kind]
          = <<"duplicates", "critical", "accuracy", "future">>

---------------------------------------------------------------------------
(* Claims about the audit *)

\* C1: the score run_audit returns is an integer with 0 <= score <= 100,
\* for every dataset, an empty one and one lacking expected columns included.
C1_ScoreInRange ==
    (out.op = "run_audit" /\ ~out.res.raised) => out.res.score \in 0..100

\* C1 witness: an audit of a dataset with duplicate keys, a critical column,
\* an accuracy issue and a future date returned a penalised score.
C1_Witness ==
    /\ out.op = "run_audit" /\ ~out.res.raised
    /\ out.res.score <= 60
    /\ out.res.consistency.DuplicateCount > 0
    /\ out.res.timeliness.FutureDates > 0

\* C5 as stated: Critical iff key field and percentage > 1.0; Warning iff
\* percentage > 20.0; otherwise Valid.
C5_StatusAsStated ==
    out.op = "check_completeness" =>
        \A i \in DOMAIN out.res :
            LET r == out.res[i]
            IN  /\ (r.Status = "Critical") <=> (r.Column \in out.arg /\ GT(r.Percentage, 1))
                /\ (r.Status = "Warning") <=> GT(r.Percentage, 20)
                /\ r.Status \in {"Critical", "Warning", "Valid"}

\* C5 amended: Critical iff key field and percentage > 1.0; Warning iff
\* percentage > 20.0 and the row is not Critical; otherwise Valid.
C5_StatusAmended ==
    out.op = "check_completeness" =>
        \A i \in DOMAIN out.res :
            LET r == out.res[i]
                crit == r.Column \in out.arg /\ GT(r.Percentage, 1)
            IN  /\ (r.Status = "Critical") <=> crit
                /\ (r.Status = "Warning") <=> (GT(r.Percentage, 20) /\ ~crit)
                /\ (r.Status = "Valid") <=> (~GT(r.Percentage, 20) /\ ~crit)

\* C5 witness: the completeness check reported a key column that is more
\* than 20 % missing, and reported it Critical.
C5_Witness ==
    /\ out.op = "check_completeness"
    /\ \E i \in DOMAIN out.res :
          /\ out.res[i].Status = "Critical"
          /\ GT(out.res[i].Percentage, 20)

\* C6 as stated: on a dataset of 0 rows check_completeness reports a missing
\* percentage of 0 for every column.
C6_EmptyPercentageZero ==
    (out.op = "check_completeness" /\ df.n = 0) =>
        \A i \in DOMAIN out.res :
            ~out.res[i].Percentage.nan /\ out.res[i].Percentage.num = 0

\* Independent readings of a dataset, used to state the claims
LatInvalid(d) ==
    Cardinality({i \in 1..d.n : LET x == Col(d, "Latitude").vals[i]
                                IN  ~IsNull(x) /\ (x.v < -90 \/ x.v > 90)})

LonInvalid(d) ==
    Cardinality({i \in 1..d.n : LET x == Col(d, "Longitude").vals[i]
                                IN  ~IsNull(x) /\ (x.v < -180 \/ x.v > 180)})

CoordCounters(issues) ==
    {i \in DOMAIN issues : issues[i].key \notin {NegativeKey(c) : c \in Columns}}

\* C7 as stated: with both coordinate columns present check_accuracy reports
\* two independent counters, one for latitude and a separate one for longitude.
C7_TwoCounters ==
    (out.op = "check_accuracy" /\ ~out.res.raised
        /\ HasCol(df, "Latitude") /\ HasCol(df, "Longitude")) =>
        \E i, j \in CoordCounters(out.res.issues) :
            /\ i # j
            /\ out.res.issues[i].count = LatInvalid(df)
            /\ out.res.issues[j].count = LonInvalid(df)

\* C7 amended: with both coordinate columns present, the result of
\* check_accuracy holds exactly one coordinate counter, 'Invalid Coordinates',
\* whose value is the number of rows with a non-null latitude outside
\* [-90, 90] plus the number of rows with a non-null longitude outside
\* [-180, 180].
C7_OneSummedCounter ==
    (out.op = "check_accuracy" /\ ~out.res.raised
        /\ HasCol(df, "Latitude") /\ HasCol(df, "Longitude")) =>
        /\ Cardinality(CoordCounters(out.res.issues)) = 1
        /\ \A i \in CoordCounters(out.res.issues) :
              /\ out.res.issues[i].key = "Invalid Coordinates"
              /\ out.res.issues[i].count = LatInvalid(df) + LonInvalid(df)

\* C7 witness: one row has both an invalid latitude and an invalid longitude,
\* and the check reported the single counter 2.
C7_Witness ==
    /\ out.op = "check_accuracy" /\ ~out.res.raised
    /\ df.n = 1
    /\ HasCol(df, "Latitude") /\ HasCol(df, "Longitude")
    /\ LatInvalid(df) = 1 /\ LonInvalid(df) = 1
    /\ \E i \in DOMAIN out.res.issues : out.res.issues[i].count = 2

\* the keys whose check applies to the dataset's columns
ApplicableKeys(d) ==
    (IF HasCol(d, "Latitude") /\ HasCol(d, "Longitude") THEN {"Invalid Coordinates"} ELSE {})
    \cup {NegativeKey(d.cols[i].name) :
            i \in {j \in DOMAIN d.cols : HasAge(d.cols[j].name) /\ d.cols[j].dtype = "float64"}}

\* C8 as stated: a key is present in the result of check_accuracy if and only
\* if its check applies; a numeric age-like column has its 'Negative <column>'
\* key even when it has no negative value.
C8_KeysFollowColumns ==
    (out.op = "check_accuracy" /\ ~out.res.raised) =>
        Keys(out.res.issues) = ApplicableKeys(df)

\* C9: duplicateCount is the number of rows whose key occurred in an earlier
\* row, duplicateRate is duplicateCount / rows x 100 and lies in [0, 100];
\* both are zero when the key column is absent or the dataset has no row.
C9_Consistency ==
    out.op = "check_consistency" =>
        LET r == out.res
        IN  /\ ~r.DuplicateRate.nan
            /\ 0 <= r.DuplicateRate.num
            /\ r.DuplicateRate.num <= 100 * r.DuplicateRate.den
            /\ IF HasCol(df, out.arg) /\ df.n > 0
               THEN LET vals == Col(df, out.arg).vals
                    IN  /\ r.DuplicateCount = df.n - Cardinality({vals[i] : i \in 1..df.n})
                        /\ r.DuplicateRate.num * df.n = r.DuplicateCount * 100 * r.DuplicateRate.den
               ELSE r.DuplicateCount = 0 /\ r.DuplicateRate.num = 0

\* C9 witness: three rows, two of them with the key of an earlier row.
C9_Witness ==
    /\ out.op = "check_consistency"
    /\ df.n = 3
    /\ out.res.DuplicateCount = 2
    /\ out.res.DuplicateRate = Rat(200, 3)

\* whether a cell of the timestamp column is a time strictly after now
IsFuture(x, now) ==
    \/ x.t = "ts" /\ x.v > now
    \/ x.t = "num" /\ x.v > now
    \/ x.t = "str" /\ x.v >= 10 /\ x.v - 10 > now

IsValidTime(x) == x.t \in {"ts", "num"} \/ (x.t = "str" /\ x.v >= 10)

TimeOf(x) == IF x.t = "str" THEN x.v - 10 ELSE x.v

NoFinding(d, now) ==
    /\ \A c \in DOMAIN d.cols : MissingCount(d.cols[c]) = 0
    /\ HasCol(d, "Report Number") =>
          \A i, j \in 1..d.n :
              i # j => Col(d, "Report Number").vals[i] # Col(d, "Report Number").vals[j]
    /\ HasCol(d, "Latitude") =>
          \A i \in 1..d.n : LET x == Col(d, "Latitude").vals[i]
                            IN  x.t = "num" /\ -90 <= x.v /\ x.v <= 90
    /\ HasCol(d, "Longitude") =>
          \A i \in 1..d.n : LET x == Col(d, "Longitude").vals[i]
                            IN  x.t = "num" /\ -180 <= x.v /\ x.v <= 180
    /\ \A c \in DOMAIN d.cols :
          HasAge(d.cols[c].name) =>
              \A i \in 1..d.n : ~(d.cols[c].vals[i].t = "num" /\ d.cols[c].vals[i].v < 0)
    /\ HasCol(d, "Crash Date/Time") =>
          \A i \in 1..d.n : ~IsFuture(Col(d, "Crash Date/Time").vals[i], now)

\* C12: for every dataset with zero missing values, zero duplicate keys, zero
\* accuracy issues and zero future dates run_audit returns the score 100 and
\* the fixed clean message as its summary text.
C12_CleanDataset ==
    (out.op = "run_audit" /\ NoFinding(df, out.arg)) =>
        /\ ~out.res.raised
        /\ out.res.score = 100
        /\ out.res.summary_text = CleanMessage

\* C12 witness: two rows with all six columns, distinct keys, coordinates in
\* range, positive ages and a latest timestamp equal to the audit instant.
C12_Witness ==
    /\ out.op = "run_audit" /\ out.arg = 3
    /\ df.n = 2 /\ Len(df.cols) = 6
    /\ NoFinding(df, out.arg)
    /\ Col(df, "Crash Date/Time").vals = <<Ts(1), Ts(3)>>
    /\ out.res.score = 100
    /\ out.res.summary_text = CleanMessage

---------------------------------------------------------------------------
(* insights.get_top_performer and insights.get_pain_points.  A result is     *)
(* [raised, empty, Column, Value, Count, Percentage]: empty is the dict {},  *)
(* Percentage is in tenths of a percent.                                     *)

MaxRowsIns == 3

Insight(column, value, count, percentage) ==
    [raised |-> FALSE, empty |-> FALSE, Column |-> column, Value |-> value,
     Count |-> count, Percentage |-> percentage]

\* return {}
EmptyInsight ==
    [raised |-> FALSE, empty |-> TRUE, Column |-> "", Value |-> NULL,
     Count |-> 0, Percentage |-> 0]

\* an exception leaves the function
RaisedInsight == [EmptyInsight EXCEPT !.raised = TRUE, !.empty = FALSE]

\* round((count / total) * 100, 1) in tenths, total > 0; no quotient of the
\* modelled sizes lies halfway between two tenths
RoundTenths(count, total) == (count * 2000 + total) \div (2 * total)

\* Series.mode()[0] of a column without a non-null value raises
get_top_performer(d, cat_col) ==
    IF ~HasCol(d, cat_col) THEN EmptyInsight
    ELSE LET vals == Col(d, cat_col).vals
         IN  IF mode(vals) = {} THEN RaisedInsight
             ELSE LET top_cat == ModeFirst(vals)
                      count == Count(vals, LAMBDA x : x = top_cat)
                      total == d.n
                  IN  Insight(cat_col, top_cat, count, RoundTenths(count, total))

\* missing.idxmax(): the first column with the largest number of missing values
get_pain_points(d) ==
    LET missing == [i \in DOMAIN d.cols |-> MissingCount(d.cols[i])]
    IN  IF SumSeq(missing) = 0 THEN EmptyInsight
        ELSE LET worst == CHOOSE i \in DOMAIN missing :
                              /\ \A j \in DOMAIN missing : missing[j] <= missing[i]
                              /\ \A j \in 1..(i - 1) : missing[j] < missing[i]
                 count == missing[worst]
             IN  Insight(d.cols[worst].name, NULL, count, RoundTenths(count, d.n))

\* an optional category column beside a numeric column, up to MaxRowsIns rows
InsightDatasets ==
    UNION {{[n |-> n, cols |-> ag \o <<MkCol("Driver Age", "float64", v)>>]
            : ag \in {<<>>} \cup {<<MkCol("Agency Name", "object", a)>>
                                  : a \in Vals({NULL, Str(1), Str(2)}, n)},
              v \in Vals({NULL, Num(30)}, n)}
           : n \in 0..MaxRowsIns}

InitInsights ==
    /\ IdleSession
    /\ df \in InsightDatasets
    /\ out = NoOut

GetTopPerformer ==
    /\ out' = [op |-> "get_top_performer", arg |-> "Agency Name",
               res |-> get_top_performer(df, "Agency Name")]
    /\ UNCHANGED <<csv, df, cleaning_log, history_log, page, inp>>

GetPainPoints ==
    /\ out' = [op |-> "get_pain_points", arg |-> 0, res |-> get_pain_points(df)]
    /\ UNCHANGED <<csv, df, cleaning_log, history_log, page, inp>>

NextInsights == GetTopPerformer \/ GetPainPoints

SpecInsights == InitInsights /\ [][NextInsights]_vars

\* the number of rows of d whose cell in column c is x
Freq(d, c, x) == Cardinality({i \in 1..d.n : Col(d, c).vals[i] = x})

\* C16 as stated: for every dataset that has the category column
\* get_top_performer returns, without raising, the most frequent value of the
\* column with its count and its percentage of all rows; with the column
\* absent it returns an empty result; get_pain_points returns an empty result
\* when no column has a missing value; none of these raises.
C16_TopPerformerBestEffort ==
    /\ out.op = "get_top_performer" =>
          /\ ~out.res.raised
          /\ IF HasCol(df, out.arg)
             THEN /\ ~out.res.empty
                  /\ ~IsNull(out.res.Value)
                  /\ out.res.Count = Freq(df, out.arg, out.res.Value)
                  /\ \A i \in 1..df.n :
                        LET x == Col(df, out.arg).vals[i]
                        IN  ~IsNull(x) => Freq(df, out.arg, x) <= out.res.Count
                  /\ 2 * (out.res.Percentage * df.n - out.res.Count * 1000) <= df.n
                  /\ 2 * (out.res.Count * 1000 - out.res.Percentage * df.n) <= df.n
             ELSE out.res.empty
    /\ out.op = "get_pain_points" =>
          /\ ~out.res.raised
          /\ (\A c \in DOMAIN df.cols : MissingCount(df.cols[c]) = 0) => out.res.empty

---------------------------------------------------------------------------
(* The Streamlit session of app.py.  Every action is one run of the script: *)
(* the history log and the session dataset are initialised (lines 18-33),   *)
(* then the selected page is rendered with the widget inputs of that run.   *)

MaxLog == 3
MaxHistory == 2

\* 1_crash_reports.csv as pd.read_csv reads it: absent (None), header only, or
\* two rows; a column of texts is object, a column of numbers or of nothing
\* but missing values is float64
CsvFiles ==
    {None,
     [n |-> 0, cols |-> <<MkCol("Crash Date/Time", "object", <<>>),
                          MkCol("Agency Name", "object", <<>>)>>],
     [n |-> 2, cols |-> <<MkCol("Crash Date/Time", "object", <<DateText(1), NULL>>),
                          MkCol("Driver Age", "float64", <<NULL, NULL>>)>>],
     [n |-> 2, cols |-> <<MkCol("Driver Age", "float64", <<Num(30), NULL>>),
                          MkCol("Agency Name", "object", <<Str(1), NULL>>)>>]}

\* the instants of the session's script runs (datetime.now(), pd.Timestamp.now())
SessionTimes == {2}

\* mutant: an empty DataFrame returned for a file that cannot be read
load_data_EmptyFrame(file) ==
    IF file = None THEN [n |-> 0, cols |-> <<>>]
    ELSE [n |-> file.n,
          cols |-> [i \in DOMAIN file.cols |->
              IF file.cols[i].name = "Crash Date/Time"
              THEN [name |-> file.cols[i].name, dtype |-> "datetime64",
                    vals |-> [k \in DOMAIN file.cols[i].vals |-> to_datetime(file.cols[i].vals[k])]]
              ELSE file.cols[i]]]

\* data_loader.load_data
load_data(file) ==
    IF file = None THEN None
    ELSE [n |-> file.n,
          cols |-> [i \in DOMAIN file.cols |->
              IF file.cols[i].name = "Crash Date/Time"
              THEN [name |-> file.cols[i].name, dtype |-> "datetime64",
                    vals |-> [k \in DOMAIN file.cols[i].vals |-> to_datetime(file.cols[i].vals[k])]]
              ELSE file.cols[i]]]

\* app.py lines 26-33: the dataset of this run
SessionDf == IF df = NotLoaded THEN load_data(csv) ELSE df

\* HistoryLog.add_entry
add_entry(log, ts, action, details) ==
    Append(log, [timestamp |-> ts, action |-> action, details |-> details])

\* the Dashboard's reads of the dataset that raise: mode()[0] of an
\* 'Agency Name' column without a value (insights.get_top_performer and
\* app.py line 65), strftime of the NaT maximum of the timestamp column
DashboardRaises(d) ==
    \/ HasCol(d, "Agency Name") /\ mode(Col(d, "Agency Name").vals) = {}
    \/ /\ HasCol(d, "Crash Date/Time")
       /\ is_datetime64_any_dtype(Col(d, "Crash Date/Time"))
       /\ SeriesMax(Col(d, "Crash Date/Time").vals) = NULL

NoMsg == Msg("", "", NULL)

PageOut(p, arg, shown, raised, msg) ==
    [op |-> p, arg |-> arg, res |-> [shown |-> shown, raised |-> raised, msg |-> msg]]

InitSession ==
    /\ csv \in CsvFiles
    /\ df = NotLoaded
    /\ cleaning_log = <<>>
    /\ history_log = <<>>
    /\ page = "Dashboard"
    /\ inp = 0
    /\ out = NoOut

\* mutant: any entry in the log taken for a recorded view
DashboardViewed_AnyEntry(log) == log # <<>>

\* "Dashboard Viewed" in [x['action'] for x in logs if x['action'] == "Dashboard Viewed"]
DashboardViewed(log) == \E i \in DOMAIN log : log[i].action = "Dashboard Viewed"

DashboardPage ==
    LET d == SessionDf
        viewed == DashboardViewed(history_log)
    IN  /\ page' = "Dashboard"
        /\ df' = d
        /\ IF d # None /\ ~viewed
           THEN /\ Len(history_log) < MaxHistory
                /\ \E ts \in SessionTimes :
                      history_log' = add_entry(history_log, ts, "Dashboard Viewed", d.n)
           ELSE history_log' = history_log
        /\ out' = IF d = None
                  THEN PageOut("Dashboard", 0, "empty_state", FALSE, NoMsg)
                  ELSE PageOut("Dashboard", 0, "insights", DashboardRaises(d), NoMsg)
        /\ UNCHANGED <<csv, cleaning_log, inp>>

DataAuditPage ==
    LET d == SessionDf
    IN  /\ page' = "Data Audit"
        /\ df' = d
        /\ \E run_btn \in BOOLEAN :
              IF d # None /\ run_btn
              THEN /\ Len(history_log) < MaxHistory
                   /\ \E ts \in SessionTimes :
                         /\ history_log' = add_entry(history_log, ts, "Audit Performed", 0)
                         /\ out' = [op |-> "Data Audit", arg |-> ts, res |-> run_audit(d, ts)]
              ELSE /\ history_log' = history_log
                   /\ out' = PageOut("Data Audit", 0,
                                      IF d = None THEN "empty_state" ELSE "button", FALSE, NoMsg)
        /\ UNCHANGED <<csv, cleaning_log, inp>>

\* cleaning.render_cleaning_ui: [df, log, shown, msg]
render_cleaning_ui(d, log, target_col, method, button) ==
    IF button = "fix"
    THEN LET r == fix_date_formats(d)
         IN  [df |-> r.df, log |-> log_step(log, r.msg), shown |-> "success", msg |-> r.msg]
    ELSE IF target_col # "(Select)" /\ button = "apply"
    THEN LET r == impute_missing_values(d, target_col, method)
         IN  IF MsgContains(r.msg, "Cannot") \/ MsgContains(r.msg, "Invalid")
             THEN [df |-> d, log |-> log, shown |-> "error", msg |-> r.msg]
             ELSE [df |-> r.df, log |-> log_step(log, r.msg), shown |-> "success", msg |-> r.msg]
    ELSE [df |-> d, log |-> log, shown |-> "none", msg |-> NoMsg]

\* the options of the Target Column selectbox; a run that does not press
\* Apply Transformation reads neither widget, and leaves both at their default
miss_cols(d) == {d.cols[i].name : i \in {j \in DOMAIN d.cols : MissingCount(d.cols[j]) > 0}}

DataCleaningPage ==
    LET d == SessionDf
    IN  /\ page' = "Data Cleaning"
        /\ IF d = None
           THEN /\ df' = d
                /\ cleaning_log' = cleaning_log
                /\ out' = PageOut("Data Cleaning", 0, "empty_state", FALSE, NoMsg)
           ELSE \E button \in {"none", "apply", "fix"} :
                \E target_col \in IF button = "apply" THEN miss_cols(d) \cup {"(Select)"}
                                   ELSE {"(Select)"},
                   method \in IF button = "apply" THEN Methods ELSE {"Mean"} :
                    LET r == render_cleaning_ui(d, cleaning_log, target_col, method, button)
                    IN  /\ Len(r.log) <= MaxLog
                        /\ df' = r.df
                        /\ cleaning_log' = r.log
                        /\ out' = PageOut("Data Cleaning",
                                           [target_col |-> target_col, method |-> method,
                                            button |-> button],
                                           r.shown, FALSE, r.msg)
        /\ UNCHANGED <<csv, history_log, inp>>

VisualizationsPage ==
    LET d == SessionDf
    IN  /\ page' = "Visualizations"
        /\ df' = d
        /\ out' = PageOut("Visualizations", 0,
                           IF d = None THEN "empty_state" ELSE "charts", FALSE, NoMsg)
        /\ UNCHANGED <<csv, cleaning_log, history_log, inp>>

\* Clear Logs empties the log and reruns the script, which then finds no entry
HistoryLogPage ==
    LET d == SessionDf
    IN  /\ page' = "History Log"
        /\ df' = d
        /\ \E clear_btn \in BOOLEAN :
              IF Len(history_log) > 0 /\ ~clear_btn
              THEN /\ history_log' = history_log
                   /\ out' = PageOut("History Log", clear_btn, "entries", FALSE, NoMsg)
              ELSE /\ history_log' = <<>>
                   /\ out' = PageOut("History Log", Len(history_log) > 0 /\ clear_btn,
                                      "empty_state", FALSE, NoMsg)
        /\ UNCHANGED <<csv, cleaning_log, inp>>

Next ==
    \/ DashboardPage
    \/ DataAuditPage
    \/ DataCleaningPage
    \/ VisualizationsPage
    \/ HistoryLogPage

Init == InitSession

Spec == Init /\ [][Next]_vars

---------------------------------------------------------------------------
(* The cleaning transforms applied to a dataset: the two functions called    *)
(* on the caller's dataset df, which their df.copy() leaves as it was, and   *)
(* render_cleaning_ui, whose caller keeps the dataset it returns.            *)

MaxRowsClean == 2
MaxLogClean == 1

\* a method name that impute_missing_values does not know
UnrecognisedMethod == "Interpolate"

\* a column to clean beside an 'Agency Name' column, up to MaxRowsClean rows
CleaningDatasets ==
    UNION {{[n |-> n, cols |-> <<c, MkCol("Agency Name", "object", a)>>]
            : c \in {MkCol("Driver Age", "float64", v) : v \in Vals({NULL, Num(0), Num(30)}, n)}
                    \cup {MkCol("Crash Date/Time", "object", v)
                          : v \in Vals({NULL, DateText(1), UnknownText}, n)}
                    \cup {MkCol("Crash Date/Time", "datetime64", v)
                          : v \in Vals({NULL, Ts(1)}, n)},
              a \in Vals({NULL, Str(1)}, n)}
           : n \in 0..MaxRowsClean}

InitClean ==
    /\ csv = None
    /\ df \in CleaningDatasets
    /\ cleaning_log = <<>>
    /\ history_log = <<>>
    /\ page = "Data Cleaning"
    /\ inp = 0
    /\ out = NoOut

ImputeMissingValues ==
    /\ \E column \in ColNames(df), method \in Methods \cup {UnrecognisedMethod} :
          out' = [op |-> "impute_missing_values",
                  arg |-> [column |-> column, method |-> method],
                  res |-> impute_missing_values(df, column, method)]
    /\ UNCHANGED <<csv, df, cleaning_log, history_log, page, inp>>

FixDateFormats ==
    /\ out' = [op |-> "fix_date_formats", arg |-> 0, res |-> fix_date_formats(df)]
    /\ UNCHANGED <<csv, df, cleaning_log, history_log, page, inp>>

\* fix_date_formats called on the dataset its previous call returned
FixDateFormatsAgain ==
    /\ out.op = "fix_date_formats"
    /\ out' = [op |-> "fix_date_formats again", arg |-> out.res,
               res |-> fix_date_formats(out.res.df)]
    /\ UNCHANGED <<csv, df, cleaning_log, history_log, page, inp>>

RenderCleaningUI ==
    /\ \E button \in {"none", "apply", "fix"} :
       \E target_col \in IF button = "apply" THEN miss_cols(df) \cup {"(Select)"}
                          ELSE {"(Select)"},
          method \in IF button = "apply" THEN Methods ELSE {"Mean"} :
           LET r == render_cleaning_ui(df, cleaning_log, target_col, method, button)
           IN  /\ Len(r.log) <= MaxLogClean
               /\ df' = r.df
               /\ cleaning_log' = r.log
               /\ out' = [op |-> "render_cleaning_ui",
                          arg |-> [column |-> target_col, method |-> method,
                                   button |-> button],
                          res |-> [df |-> r.df, msg |-> r.msg, shown |-> r.shown]]
    /\ UNCHANGED <<csv, history_log, page, inp>>

NextClean ==
    \/ ImputeMissingValues
    \/ FixDateFormats
    \/ FixDateFormatsAgain
    \/ RenderCleaningUI

SpecClean == InitClean /\ [][NextClean]_vars

---------------------------------------------------------------------------
(* Claims about the cleaning transforms *)

\* C13: impute_missing_values with 'Fill Zero' on a column with N > 0 missing
\* values returns a dataset in which that column has no missing value (each
\* missing cell holds 0, each other cell its old value), every other column
\* and the row count are unchanged, and the caller's dataset is as it was.
C13_FillZeroFrame ==
    [][(/\ out'.op = "impute_missing_values"
        /\ out'.arg.method = "Fill Zero"
        /\ MissingCount(Col(df, out'.arg.column)) > 0)
       => LET new == out'.res.df
              c == out'.arg.column
          IN  /\ df' = df
              /\ new.n = df.n
              /\ Len(new.cols) = Len(df.cols)
              /\ \A i \in DOMAIN df.cols :
                    IF df.cols[i].name = c
                    THEN /\ new.cols[i].name = c
                         /\ MissingCount(new.cols[i]) = 0
                         /\ \A k \in 1..df.n :
                               new.cols[i].vals[k] =
                                   IF IsNull(df.cols[i].vals[k]) THEN Num(0)
                                   ELSE df.cols[i].vals[k]
                    ELSE new.cols[i] = df.cols[i]]_vars

\* C13 witness: Fill Zero was applied to a timestamp column with two missing
\* values beside a column that has a missing value of its own.
C13_Witness ==
    /\ out.op = "impute_missing_values"
    /\ out.arg = [column |-> "Crash Date/Time", method |-> "Fill Zero"]
    /\ df.cols = <<MkCol("Crash Date/Time", "datetime64", <<NULL, NULL>>),
                   MkCol("Agency Name", "object", <<NULL, Str(1)>>)>>
    /\ Col(out.res.df, "Crash Date/Time").vals = <<Num(0), Num(0)>>
    /\ Col(out.res.df, "Agency Name").vals = <<NULL, Str(1)>>

\* C14: fix_date_formats is idempotent on the dataset: called on the dataset
\* it returned, it returns that dataset again and converts no column, every
\* column it converted before being in timestamp form now.
C14_FixDatesIdempotent ==
    out.op = "fix_date_formats again" =>
        /\ out.res.df = out.arg.df
        /\ out.res.msg.kind = "No date columns required fixing."

\* C14 witness: the first call converted a text column holding a date text and
\* an unparsable text, the second call returned the converted dataset.
C14_Witness ==
    /\ out.op = "fix_date_formats again"
    /\ out.arg.msg.kind = "Fixed Date Formats: {converted}"
    /\ Col(df, "Crash Date/Time") = MkCol("Crash Date/Time", "object", <<DateText(1), UnknownText>>)
    /\ Col(out.res.df, "Crash Date/Time") = MkCol("Crash Date/Time", "datetime64", <<Ts(1), NULL>>)

\* Mean or Median on a column that is not numeric, or an unknown method
InvalidParameters(d, column, method) ==
    \/ method \in {"Mean", "Median"} /\ Col(d, column).dtype \in {"object", "datetime64"}
    \/ method \notin Methods

\* the message impute_missing_values owes for invalid parameters
FailureKind(method) ==
    CASE method = "Mean" -> "Cannot calculate Mean for non-numeric column {column}."
      [] method = "Median" -> "Cannot calculate Median for non-numeric column {column}."
      [] OTHER -> "Invalid imputation method selected."

\* C15 as stated: an imputation with invalid parameters (Mean or Median on a
\* non-numeric column, an unrecognised method) returns the failure message of
\* the method and the dataset unchanged; when render_cleaning_ui handles the
\* attempt the session's dataset is the one before the attempt.
C15_FailureMessageAlways ==
    [][/\ (/\ out'.op = "impute_missing_values"
            /\ InvalidParameters(df, out'.arg.column, out'.arg.method))
           => /\ out'.res.df = df
              /\ df' = df
              /\ out'.res.msg.kind = FailureKind(out'.arg.method)
       /\ (/\ out'.op = "render_cleaning_ui"
            /\ out'.arg.button = "apply"
            /\ out'.arg.column # "(Select)"
            /\ InvalidParameters(df, out'.arg.column, out'.arg.method))
           => /\ df' = df
              /\ out'.res.shown = "error"
              /\ out'.res.msg.kind = FailureKind(out'.arg.method)]_vars

\* C15 amended: an imputation with invalid parameters returns a message and
\* the dataset unchanged, without raising: the failure message of the method
\* when the column has a missing value, the no-op message when it has none
\* (the column is looked at before the method); when render_cleaning_ui
\* handles the attempt, which it does for columns with a missing value only,
\* it shows the failure message as an error and the session's dataset is the
\* one before the attempt.
C15_InvalidParameters ==
    [][/\ (/\ out'.op = "impute_missing_values"
            /\ InvalidParameters(df, out'.arg.column, out'.arg.method))
           => /\ out'.res.df = df
              /\ df' = df
              /\ out'.res.msg.kind =
                    IF MissingCount(Col(df, out'.arg.column)) > 0
                    THEN FailureKind(out'.arg.method)
                    ELSE "No missing values in {column} to fill."
       /\ (/\ out'.op = "render_cleaning_ui"
            /\ out'.arg.button = "apply"
            /\ out'.arg.column # "(Select)"
            /\ InvalidParameters(df, out'.arg.column, out'.arg.method))
           => /\ df' = df
              /\ out'.res.shown = "error"
              /\ out'.res.msg.kind = FailureKind(out'.arg.method)]_vars

\* C15 witness: render_cleaning_ui was asked for the Median of a text column
\* with a missing value and showed the failure message.
C15_Witness ==
    /\ out.op = "render_cleaning_ui"
    /\ out.arg = [column |-> "Agency Name", method |-> "Median", button |-> "apply"]
    /\ out.res.shown = "error"
    /\ out.res.msg = Msg("Cannot calculate Median for non-numeric column {column}.",
                         "Agency Name", NULL)
    /\ MissingCount(Col(df, "Agency Name")) > 0

---------------------------------------------------------------------------
(* Claims about the cleaning UI *)

\* the messages of a failed or no-op attempt
FailedKinds ==
    {"Cannot calculate Mean for non-numeric column {column}.",
     "Cannot calculate Median for non-numeric column {column}.",
     "Could not determine Mode for {column}.",
     "No missing values in {column} to fill.",
     "No date columns required fixing.",
     "Invalid imputation method selected."}

\* the run pressed Apply Transformation or Fix Date Formats and the transform
\* did not report a failure or a no-op
SuccessfulTransform(o) ==
    /\ o.op = "Data Cleaning"
    /\ o.res.msg # NoMsg
    /\ o.res.msg.kind \notin FailedKinds

\* C3 as stated: every successful transform appends exactly one entry to the
\* cleaning log and every failed or no-op attempt appends none, so the log
\* length is the number of successful transforms so far.
C3_LogCountsSuccesses ==
    [][Len(cleaning_log') =
          Len(cleaning_log) + (IF SuccessfulTransform(out') THEN 1 ELSE 0)]_vars

AllNull(col) == \A i \in DOMAIN col.vals : IsNull(col.vals[i])

\* C4 as stated: Mean on an entirely-null numeric column returns a failure
\* message, leaves the column unchanged and is not recorded; Mode on an
\* entirely-null column returns a failure message with the column unchanged.
C4_AllNullFailsGracefully ==
    [][LET d == SessionDf
       IN  (/\ d # None
            /\ out'.op = "Data Cleaning"
            /\ out'.arg.button = "apply"
            /\ out'.arg.target_col # "(Select)"
            /\ out'.arg.method \in {"Mean", "Mode"}
            /\ AllNull(Col(d, out'.arg.target_col))
            /\ (out'.arg.method = "Mean" => is_numeric_dtype(Col(d, out'.arg.target_col))))
           => (/\ out'.res.msg.kind \in FailedKinds
               /\ Col(df', out'.arg.target_col) = Col(d, out'.arg.target_col)
               /\ (out'.arg.method = "Mean" => cleaning_log' = cleaning_log))]_vars

---------------------------------------------------------------------------
(* Claims about the session *)

\* C17: the cleaning log only changes by one entry appended at its end, the
\* message of the transform of that script run; no entry is removed, rewritten
\* or reordered, and a run of another page, Clear Logs of the history log
\* included, leaves the cleaning log unchanged.
C17_CleaningLogAppendOnly ==
    [][/\ \/ cleaning_log' = cleaning_log
          \/ /\ out'.op = "Data Cleaning"
             /\ out'.arg.button \in {"apply", "fix"}
             /\ cleaning_log' = Append(cleaning_log, out'.res.msg)
       /\ out'.op # "Data Cleaning" => cleaning_log' = cleaning_log]_vars

\* C17 witness: two transforms are in the cleaning log in the order they were
\* invoked, and Clear Logs has just emptied the history log.
C17_Witness ==
    /\ out.op = "History Log" /\ out.arg = TRUE
    /\ history_log = <<>>
    /\ Len(cleaning_log) = 2
    /\ cleaning_log[1].kind = "Filled missing {column} with 0"
    /\ cleaning_log[2].kind = "Fixed Date Formats: {converted}"

\* C18: when loading fails the session dataset is None and stays None; every
\* page run then shows its empty-state message, runs no operation on the
\* dataset, raises nothing and appends no entry to either log.
C18_FailedLoad ==
    (csv = None /\ df # NotLoaded) =>
        /\ df = None
        /\ out.op = page
        /\ out.res.shown = "empty_state"
        /\ ~out.res.raised
        /\ out.res.msg = NoMsg
        /\ cleaning_log = <<>>
        /\ history_log = <<>>

\* C18 witness: after a failed load the Data Cleaning page showed its
\* empty state.
C18_Witness ==
    /\ csv = None /\ df = None
    /\ out = PageOut("Data Cleaning", 0, "empty_state", FALSE, NoMsg)
    /\ cleaning_log = <<>>

\* the number of 'Dashboard Viewed' entries
Views(log) == Cardinality({i \in DOMAIN log : log[i].action = "Dashboard Viewed"})

\* C19: the history log never holds more than one 'Dashboard Viewed' entry; a
\* run of the Dashboard with a dataset appends that entry at the end exactly
\* when the log holds none (so again after Clear Logs emptied the log), and
\* leaves the log unchanged when it holds one.
C19_DashboardViewedOnce ==
    [][/\ Views(history_log') <= 1
       /\ (out'.op = "Dashboard" /\ df' # None) =>
             IF Views(history_log) = 0
             THEN /\ Len(history_log') = Len(history_log) + 1
                  /\ SubSeq(history_log', 1, Len(history_log)) = history_log
                  /\ history_log'[Len(history_log')].action = "Dashboard Viewed"
             ELSE history_log' = history_log]_vars

\* C19 witness: the Dashboard was viewed again after an audit; the log still
\* holds the one 'Dashboard Viewed' entry, before the audit's entry.
C19_Witness ==
    /\ out.op = "Dashboard"
    /\ Len(history_log) = 2
    /\ history_log[1].action = "Dashboard Viewed"
    /\ history_log[2].action = "Audit Performed"

====
